---- MODULE Spec2Model ----
(***************************************************************************)
(* A model of scripts/figma-export.js: the token loader (readJsonFiles,    *)
(* deepMerge), the reference resolver (resolveRef), the categoriser        *)
(* (isPrimitive / isComponent / isSemantic), the variables payload builder *)
(* (the main loop and buildModeValue), the Tokens Studio builder           *)
(* (buildTokensStudio) and the write / push tail of the script.            *)
(*                                                                         *)
(* JavaScript strings are sequences of one-character strings, so that      *)
(* startsWith, split, replace and the regular expressions of the script    *)
(* are computed, not assumed.  JavaScript values are records               *)
(* [t, s, n, d]: t is the typeof tag, s the characters of a string, n/d a  *)
(* number as a fraction in lowest terms.                                   *)
(***************************************************************************)
EXTENDS Integers, Sequences, FiniteSets, TLC

VARIABLES
    pc,                 \* position of the script / of the function under test
    flat,               \* the flattened token set, in Object.entries order
    i,                  \* index of the main loop over Object.entries(flat)
    variables,          \* payload.variables
    variableModeValues, \* payload.variableModeValues
    resolveLog,         \* the resolveRef calls made by buildModeValue so far
    tokensStudio,       \* the document returned by buildTokensStudio
    files,              \* the output files written so far
    network,            \* number of fetch calls attempted
    env,                \* process.env as read at lines 279-281
    exitCode,           \* process exit code, -1 while running
    ref,                \* resolveRef's argument (resolver specification)
    result,             \* resolveRef's outcome  (resolver specification)
    tree,               \* the tokens/ directory  (loader specification)
    allTokens           \* readJsonFiles' result  (loader specification)

vars == <<pc, flat, i, variables, variableModeValues, resolveLog, tokensStudio,
          files, network, env, exitCode, ref, result, tree, allTokens>>

----------------------------------------------------------------------------
(* Bounds of the model.                                                    *)

MaxTokens == 2
MaxChain == 3
MaxEntries == 2
MaxDepth == 1

----------------------------------------------------------------------------
(* JavaScript values.                                                      *)

\* F applied to the value of e (of e1 and e2): the value is computed once,
\* however often F uses it.
With(e, F(_)) == CHOOSE y \in {F(x) : x \in {e}} : TRUE
With2(e1, e2, F(_, _)) ==
    CHOOSE y \in {F(x1, x2) : x1 \in {e1}, x2 \in {e2}} : TRUE

RECURSIVE Gcd(_, _)
Gcd(a, b) == IF b = 0 THEN a ELSE Gcd(b, a % b)

Abs(n) == IF n < 0 THEN -n ELSE n

Undefined == [t |-> "undefined", s |-> <<>>, n |-> 0, d |-> 1]
NaN == [t |-> "NaN", s |-> <<>>, n |-> 0, d |-> 1]
Str(s) == [t |-> "string", s |-> s, n |-> 0, d |-> 1]
Num(n, d) ==
    With2(n, d, LAMBDA p, q :
        LET g == Gcd(Abs(p), q)
        IN  [t |-> "number", s |-> <<>>, n |-> p \div g, d |-> q \div g])
Int_(n) == Num(n, 1)

IsString(v) == v.t = "string"
IsNumber(v) == v.t \in {"number", "NaN"}

\* ToBoolean of a primitive: undefined, NaN, 0 and "" are falsy.
Truthy(v) ==
    CASE v.t = "undefined" -> FALSE
      [] v.t = "NaN" -> FALSE
      [] v.t = "number" -> v.n # 0
      [] v.t = "string" -> v.s # <<>>
      [] OTHER -> TRUE

StartsWith(s, p) == Len(s) >= Len(p) /\ SubSeq(s, 1, Len(p)) = p

LineTerminators == {"\n", "\r"}

\* ref.match(/^\{(.+)\}$/) succeeds: "{", one or more characters that are
\* not line terminators, "}".
MatchesRef(s) ==
    /\ Len(s) >= 3
    /\ s[1] = "{"
    /\ s[Len(s)] = "}"
    /\ \A k \in 2..(Len(s) - 1) : s[k] \notin LineTerminators

\* match[1]
RefPath(s) == SubSeq(s, 2, Len(s) - 1)

\* The reference string naming path p.
RefTo(p) == Str(<<"{">> \o p \o <<"}">>)

\* path.replace(/\./g, c)
RECURSIVE ReplaceDots(_, _)
ReplaceDots(s, c) ==
    IF s = <<>> THEN <<>>
    ELSE <<(IF Head(s) = "." THEN c ELSE Head(s))>> \o ReplaceDots(Tail(s), c)

\* path.split('.')
RECURSIVE SplitFrom(_, _)
SplitFrom(s, acc) ==
    IF s = <<>> THEN <<acc>>
    ELSE IF Head(s) = "." THEN <<acc>> \o SplitFrom(Tail(s), <<>>)
    ELSE SplitFrom(Tail(s), Append(acc, Head(s)))

Split(s) == SplitFrom(s, <<>>)

----------------------------------------------------------------------------
(* Plain objects and property lookup.                                      *)

\* `const flat = {}` is a plain object: a lookup of a key that is not an own
\* property falls through to Object.prototype, whose members are truthy.
ObjectPrototypeKeys ==
    { <<"c", "o", "n", "s", "t", "r", "u", "c", "t", "o", "r">>,
      <<"t", "o", "S", "t", "r", "i", "n", "g">>,
      <<"v", "a", "l", "u", "e", "O", "f">>,
      <<"h", "a", "s", "O", "w", "n", "P", "r", "o", "p", "e", "r", "t", "y">>,
      <<"_", "_", "p", "r", "o", "t", "o", "_", "_">> }

Paths(f) == {f[k].path : k \in 1..Len(f)}

HasToken(f, p) == p \in Paths(f)

TokenAt(f, p) == f[CHOOSE k \in 1..Len(f) : f[k].path = p].token

\* flatTokens[path]: "own" with the token, "inherited" (a member of
\* Object.prototype, which has no $value), or "undefined".
Lookup(f, p) ==
    With(p, LAMBDA key :
        IF HasToken(f, key) THEN [kind |-> "own", value |-> TokenAt(f, key).value]
        ELSE IF key \in ObjectPrototypeKeys
             THEN [kind |-> "inherited", value |-> Undefined]
        ELSE [kind |-> "undefined", value |-> Undefined])

LookupTruthy(f, p) == Lookup(f, p).kind # "undefined"

----------------------------------------------------------------------------
(* resolveRef                                                              *)

\* The outcome of a call: "return" with val, "throw" (a TypeError), or
\* "diverge": the recursion revisits a token and never returns a value
\* (unbounded recursion).  calls counts the invocations made, the first
\* included.  fuel is the number of tokens not yet visited plus one: every
\* recursive call follows an own token of flatTokens, so a chain longer than
\* the token set has visited some token twice and repeats forever.
RECURSIVE ResolveFrom(_, _, _, _)
ResolveFrom(r, f, fuel, calls) ==
    IF ~IsString(r) THEN [kind |-> "throw", val |-> Undefined, calls |-> calls]
    ELSE IF ~MatchesRef(r.s) THEN [kind |-> "return", val |-> r, calls |-> calls]
    ELSE With(Lookup(f, RefPath(r.s)), LAMBDA token :
             IF token.kind = "undefined"
             THEN [kind |-> "return", val |-> r, calls |-> calls]
             ELSE IF IsString(token.value) /\ StartsWith(token.value.s, <<"{">>)
             THEN IF fuel = 0
                  THEN [kind |-> "diverge", val |-> Undefined, calls |-> calls]
                  ELSE ResolveFrom(token.value, f, fuel - 1, calls + 1)
             ELSE [kind |-> "return", val |-> token.value, calls |-> calls])

\* A variant of resolveRef: a referenced token's value is returned as it is,
\* without following it when it is itself a reference.
resolveRef_OneHop(r, f) ==
    IF ~IsString(r) THEN [kind |-> "throw", val |-> Undefined, calls |-> 1]
    ELSE IF ~MatchesRef(r.s) THEN [kind |-> "return", val |-> r, calls |-> 1]
    ELSE With(Lookup(f, RefPath(r.s)), LAMBDA token :
             IF token.kind = "undefined"
             THEN [kind |-> "return", val |-> r, calls |-> 1]
             ELSE [kind |-> "return", val |-> token.value, calls |-> 1])

resolveRef(r, f) == ResolveFrom(r, f, Len(f), 1)

----------------------------------------------------------------------------
(* Number parsing and printing.                                            *)

HexDigits == <<"0", "1", "2", "3", "4", "5", "6", "7", "8", "9",
               "a", "b", "c", "d", "e", "f">>
UpperHexDigits == <<"0", "1", "2", "3", "4", "5", "6", "7", "8", "9",
                    "A", "B", "C", "D", "E", "F">>

IsDigit(c, radix) ==
    \E k \in 1..radix : HexDigits[k] = c \/ UpperHexDigits[k] = c

DigitValue(c) ==
    (CHOOSE k \in 1..16 : HexDigits[k] = c \/ UpperHexDigits[k] = c) - 1

\* The longest prefix of s made of digits of the radix.
RECURSIVE DigitPrefix(_, _)
DigitPrefix(s, radix) ==
    IF s # <<>> /\ IsDigit(Head(s), radix)
    THEN <<Head(s)>> \o DigitPrefix(Tail(s), radix)
    ELSE <<>>

RECURSIVE DigitsValue(_, _, _)
DigitsValue(s, radix, acc) ==
    IF s = <<>> THEN acc
    ELSE DigitsValue(Tail(s), radix, acc * radix + DigitValue(Head(s)))

RECURSIVE Pow(_, _)
Pow(b, e) == IF e = 0 THEN 1 ELSE b * Pow(b, e - 1)

RECURSIVE TrimStart(_)
TrimStart(s) == IF s # <<>> /\ Head(s) = " " THEN TrimStart(Tail(s)) ELSE s

SignOf(s) == IF s # <<>> /\ Head(s) = "-" THEN -1 ELSE 1
Unsigned(s) == IF s # <<>> /\ Head(s) \in {"-", "+"} THEN Tail(s) ELSE s

\* parseInt(s, 16): leading spaces, a sign, an optional 0x, then the longest
\* run of hexadecimal digits; NaN when that run is empty.
ParseInt16(s) ==
    With(TrimStart(s), LAMBDA t :
    With(Unsigned(t), LAMBDA u :
    With(DigitPrefix(IF Len(u) >= 2 /\ u[1] = "0" /\ u[2] \in {"x", "X"}
                     THEN SubSeq(u, 3, Len(u)) ELSE u, 16), LAMBDA ds :
        IF ds = <<>> THEN NaN ELSE Int_(SignOf(t) * DigitsValue(ds, 16, 0)))))

\* parseFloat(s) for decimal literals without exponent: leading spaces, a
\* sign, digits, an optional fraction; NaN when no digit is read.
ParseFloat(s) ==
    With(TrimStart(s), LAMBDA t :
    With(Unsigned(t), LAMBDA u :
    With(DigitPrefix(u, 10), LAMBDA ip :
    With(SubSeq(u, Len(ip) + 1, Len(u)), LAMBDA rest :
    With(IF rest # <<>> /\ Head(rest) = "."
         THEN DigitPrefix(Tail(rest), 10) ELSE <<>>, LAMBDA fp :
        IF ip = <<>> /\ fp = <<>> THEN NaN
        ELSE Num(SignOf(t) * (DigitsValue(ip, 10, 0) * Pow(10, Len(fp))
                              + DigitsValue(fp, 10, 0)),
                 Pow(10, Len(fp))))))))

\* x / k for a number x and a positive integer k.
DivBy(x, k) ==
    With(x, LAMBDA v : IF v.t = "NaN" THEN NaN ELSE Num(v.n, v.d * k))

\* +x.toFixed(4): x rounded to the nearest multiple of 1/10000.
ToFixed4(x) ==
    With(x, LAMBDA v :
        IF v.t = "NaN" THEN NaN
        ELSE LET sgn == IF v.n < 0 THEN -1 ELSE 1
                 m == (2 * Abs(v.n) * 10000 + v.d) \div (2 * v.d)
             IN  Num(sgn * m, 10000))

RECURSIVE NatToString(_)
NatToString(n) ==
    IF n < 10 THEN <<HexDigits[n + 1]>>
    ELSE NatToString(n \div 10) \o <<HexDigits[(n % 10) + 1]>>

\* The digits of rem/d after the decimal point, at most k of them.
RECURSIVE FractionDigits(_, _, _)
FractionDigits(rem, d, k) ==
    IF rem = 0 \/ k = 0 THEN <<>>
    ELSE <<HexDigits[((rem * 10) \div d) + 1]>>
         \o FractionDigits((rem * 10) % d, d, k - 1)

\* String(val)
StringOf(v) ==
    CASE v.t = "string" -> v.s
      [] v.t = "undefined" -> <<"u", "n", "d", "e", "f", "i", "n", "e", "d">>
      [] v.t = "NaN" -> <<"N", "a", "N">>
      [] OTHER ->
            (IF v.n < 0 THEN <<"-">> ELSE <<>>)
            \o NatToString(Abs(v.n) \div v.d)
            \o (IF Abs(v.n) % v.d = 0 THEN <<>>
                ELSE <<".">> \o FractionDigits(Abs(v.n) % v.d, v.d, 17))

----------------------------------------------------------------------------
(* Small helpers of the script.                                            *)

\* hex.replace('#', ''): the first "#" is removed.
RECURSIVE RemoveFirstHash(_)
RemoveFirstHash(s) ==
    IF s = <<>> THEN <<>>
    ELSE IF Head(s) = "#" THEN Tail(s)
    ELSE <<Head(s)>> \o RemoveFirstHash(Tail(s))

\* clean.slice(a, b) for 0 <= a <= b
Slice(s, a, b) ==
    LET hi == IF b > Len(s) THEN Len(s) ELSE b
    IN  IF a >= hi THEN <<>> ELSE SubSeq(s, a + 1, hi)

hexToFigmaColor(hex) ==
    With(RemoveFirstHash(hex), LAMBDA clean :
        IF Len(clean) = 3
        THEN [r |-> DivBy(ParseInt16(<<clean[1], clean[1]>>), 255),
              g |-> DivBy(ParseInt16(<<clean[2], clean[2]>>), 255),
              b |-> DivBy(ParseInt16(<<clean[3], clean[3]>>), 255),
              a |-> Int_(1)]
        ELSE [r |-> ToFixed4(DivBy(ParseInt16(Slice(clean, 0, 2)), 255)),
              g |-> ToFixed4(DivBy(ParseInt16(Slice(clean, 2, 4)), 255)),
              b |-> ToFixed4(DivBy(ParseInt16(Slice(clean, 4, 6)), 255)),
              a |-> IF Len(clean) = 8
                    THEN DivBy(ParseInt16(Slice(clean, 6, 8)), 255)
                    ELSE Int_(1)])

toVarId(path) == <<"b", "m", "/">> \o ReplaceDots(path, "/")

T_color == Str(<<"c", "o", "l", "o", "r">>)
T_dimension == Str(<<"d", "i", "m", "e", "n", "s", "i", "o", "n">>)
T_fontWeight == Str(<<"f", "o", "n", "t", "W", "e", "i", "g", "h", "t">>)
T_fontFamily == Str(<<"f", "o", "n", "t", "F", "a", "m", "i", "l", "y">>)
T_duration == Str(<<"d", "u", "r", "a", "t", "i", "o", "n">>)
T_number == Str(<<"n", "u", "m", "b", "e", "r">>)
T_other == Str(<<"o", "t", "h", "e", "r">>)

toFigmaType(dtcgType) ==
    CASE dtcgType = T_color -> "COLOR"
      [] dtcgType = T_dimension -> "FLOAT"
      [] dtcgType = T_fontFamily -> "STRING"
      [] dtcgType = T_fontWeight -> "FLOAT"
      [] dtcgType = T_duration -> "STRING"
      [] dtcgType = T_number -> "FLOAT"
      [] dtcgType = T_other -> "STRING"
      [] OTHER -> "STRING"

parseDimension(val) ==
    IF IsNumber(val) THEN val
    ELSE With(ParseFloat(StringOf(val)), LAMBDA n :
             IF n.t = "NaN" THEN Int_(0) ELSE n)

----------------------------------------------------------------------------
(* The categoriser.                                                        *)

ComponentNames ==
    { <<"b", "u", "t", "t", "o", "n">>,
      <<"i", "n", "p", "u", "t">>,
      <<"c", "a", "r", "d">>,
      <<"a", "l", "e", "r", "t">>,
      <<"c", "h", "e", "c", "k", "b", "o", "x">>,
      <<"t", "o", "g", "g", "l", "e">>,
      <<"t", "a", "b", "s">>,
      <<"m", "o", "d", "a", "l">> }

isPrimitive(p) ==
    \/ StartsWith(p, <<"c", "o", "l", "o", "r", ".">>)
    \/ StartsWith(p, <<"f", "o", "n", "t", ".">>)
    \/ StartsWith(p, <<"l", "e", "t", "t", "e", "r">>)

isComponent(p) == \E c \in ComponentNames : StartsWith(p, c \o <<".">>)

isSemantic(p) == ~isPrimitive(p) /\ ~isComponent(p)

COLL ==
    [primitives |-> [id |-> "bm-coll-primitives", name |-> "Primitives",
                     modes |-> <<"bm-mode-default">>],
     semantic |-> [id |-> "bm-coll-semantic", name |-> "Semantic",
                   modes |-> <<"bm-mode-dark", "bm-mode-light">>],
     components |-> [id |-> "bm-coll-components", name |-> "Components",
                     modes |-> <<"bm-mode-comp">>]]

----------------------------------------------------------------------------
(* buildModeValue                                                          *)

NoColor == [r |-> Undefined, g |-> Undefined, b |-> Undefined, a |-> Undefined]
Magenta == [r |-> Int_(1), g |-> Int_(0), b |-> Int_(1), a |-> Int_(1)]

\* entry.value: { type: 'VARIABLE_ALIAS', id }, a colour { r, g, b, a }, or a
\* number or string.
AliasValue(id) ==
    [kind |-> "VARIABLE_ALIAS", id |-> id, rgba |-> NoColor, lit |-> Undefined]
ColorValue(c) ==
    [kind |-> "color", id |-> <<>>, rgba |-> c, lit |-> Undefined]
LiteralValue(v) ==
    [kind |-> "literal", id |-> <<>>, rgba |-> NoColor, lit |-> v]

Entry(varId, modeId, value) ==
    [variableId |-> varId, modeId |-> modeId, value |-> value]

NoEntry == Entry(<<>>, "none", LiteralValue(Undefined))

\* One resolveRef call as buildModeValue made it: its argument, whether the
\* argument names a token of the set, and how the call ended.
LogCall(arg, f, r) ==
    [arg |-> arg,
     existing |-> IsString(arg) /\ MatchesRef(arg.s) /\ HasToken(f, RefPath(arg.s)),
     kind |-> r.kind,
     calls |-> r.calls]

\* The literal part of buildModeValue (lines 238-252), val already resolved.
BuildLiteral(varId, modeId, val, figmaType, f, log) ==
    IF figmaType = "COLOR"
    THEN IF IsString(val) /\ StartsWith(val.s, <<"#">>)
         THEN [kind |-> "return", log |-> log,
               entry |-> Entry(varId, modeId, ColorValue(hexToFigmaColor(val.s)))]
         ELSE With(resolveRef(val, f), LAMBDA r :
              LET log2 == log \cup {LogCall(val, f, r)}
                  rawHex == r.val
              IN  IF r.kind # "return"
                  THEN [kind |-> r.kind, log |-> log2, entry |-> NoEntry]
                  ELSE IF Truthy(rawHex) /\ ~IsString(rawHex)
                  THEN [kind |-> "throw", log |-> log2, entry |-> NoEntry]
                  ELSE IF Truthy(rawHex) /\ StartsWith(rawHex.s, <<"#">>)
                  THEN [kind |-> "return", log |-> log2,
                        entry |-> Entry(varId, modeId,
                                        ColorValue(hexToFigmaColor(rawHex.s)))]
                  ELSE [kind |-> "return", log |-> log2,
                        entry |-> Entry(varId, modeId, ColorValue(Magenta))])
    ELSE IF figmaType = "FLOAT"
    THEN [kind |-> "return", log |-> log,
          entry |-> Entry(varId, modeId, LiteralValue(parseDimension(val)))]
    ELSE [kind |-> "return", log |-> log,
          entry |-> Entry(varId, modeId, LiteralValue(Str(StringOf(val))))]

\* A variant of buildModeValue: a reference is always resolved to a literal,
\* never kept as an alias.
buildModeValue_Inline(varId, modeId, val, figmaType, f) ==
    IF IsString(val) /\ MatchesRef(val.s)
    THEN With(resolveRef(val, f), LAMBDA r :
             IF r.kind # "return"
             THEN [kind |-> r.kind, log |-> {LogCall(val, f, r)}, entry |-> NoEntry]
             ELSE BuildLiteral(varId, modeId, r.val, figmaType, f,
                               {LogCall(val, f, r)}))
    ELSE BuildLiteral(varId, modeId, val, figmaType, f, {})

\* The outcome: "return" with the entry, "throw" (an uncaught TypeError) or
\* "diverge" (resolveRef never returns); log holds the resolveRef calls made.
buildModeValue(varId, modeId, val, figmaType, f) ==
    IF IsString(val) /\ MatchesRef(val.s)
    THEN LET refPath == RefPath(val.s)
             refVarId == toVarId(refPath)
         IN  IF LookupTruthy(f, refPath)
             THEN [kind |-> "return", log |-> {},
                   entry |-> Entry(varId, modeId, AliasValue(refVarId))]
             ELSE With(resolveRef(val, f), LAMBDA r :
                      IF r.kind # "return"
                      THEN [kind |-> r.kind, log |-> {LogCall(val, f, r)},
                            entry |-> NoEntry]
                      ELSE BuildLiteral(varId, modeId, r.val, figmaType, f,
                                        {LogCall(val, f, r)}))
    ELSE BuildLiteral(varId, modeId, val, figmaType, f, {})

----------------------------------------------------------------------------
(* One iteration of the main loop (lines 170-215).                         *)

\* const { $type = 'other' } = token
TypeOf(token) == IF token.type = Undefined THEN T_other ELSE token.type

\* $description || ''
DescriptionOrEmpty(token) ==
    IF Truthy(token.description) THEN token.description ELSE Str(<<>>)

\* The collection and mode ids chosen for a path (lines 175-186).
Collection(path) ==
    IF isPrimitive(path)
    THEN [coll |-> COLL.primitives, primaryModeId |-> "bm-mode-default",
          secondaryModeId |-> "undefined"]
    ELSE IF isSemantic(path)
    THEN [coll |-> COLL.semantic, primaryModeId |-> "bm-mode-dark",
          secondaryModeId |-> "bm-mode-light"]
    ELSE [coll |-> COLL.components, primaryModeId |-> "bm-mode-comp",
          secondaryModeId |-> "undefined"]

\* The record pushed on variables (lines 191-200).
Variable(path, token) ==
    [action |-> "CREATE",
     id |-> toVarId(path),
     name |-> ReplaceDots(path, "/"),
     variableCollectionId |-> Collection(path).coll.id,
     resolvedType |-> toFigmaType(TypeOf(token)),
     description |-> DescriptionOrEmpty(token),
     scopes |-> <<"ALL_SCOPES">>,
     codeSyntax |-> [WEB |-> <<"v", "a", "r", "(", "-", "-">>
                             \o ReplaceDots(path, "-") \o <<")">>]]

\* $extensions?.modes?.light || $value
LightRef(token) == IF Truthy(token.light) THEN token.light ELSE token.value

\* The iteration for one [path, token]: kind is "ok", "throw" or "diverge";
\* entries are the mode values pushed before the iteration ended.
Iteration(path, token, f) ==
    With2(Collection(path), toVarId(path), LAMBDA c, varId :
    With(toFigmaType(TypeOf(token)), LAMBDA figmaType :
    With2(buildModeValue(varId, c.primaryModeId, token.value, figmaType, f),
          buildModeValue(varId, c.secondaryModeId, LightRef(token), figmaType, f),
          LAMBDA dark, light :
        IF dark.kind # "return"
        THEN [kind |-> dark.kind, entries |-> <<>>, log |-> dark.log]
        ELSE IF c.secondaryModeId = "undefined"
        THEN [kind |-> "ok", entries |-> <<dark.entry>>, log |-> dark.log]
        ELSE IF light.kind # "return"
        THEN [kind |-> light.kind, entries |-> <<dark.entry>>,
              log |-> dark.log \cup light.log]
        ELSE [kind |-> "ok", entries |-> <<dark.entry, light.entry>>,
              log |-> dark.log \cup light.log])))

----------------------------------------------------------------------------
(* buildTokensStudio                                                       *)

\* A node of a JSON-like document: a plain object (m maps its own keys to
\* nodes), an array (m maps its indices) or a primitive value v.
Obj(m) == [k |-> "object", m |-> m, v |-> Undefined]
Arr(m) == [k |-> "array", m |-> m, v |-> Undefined]
Prim(v) == [k |-> "prim", m |-> <<>>, v |-> v]
EmptyObj == Obj(<<>>)
Thrown == [k |-> "throw", m |-> <<>>, v |-> Undefined]

HasOwn(o, key) == key \in DOMAIN o.m

\* o with o[key] = node
Put(o, key, node) ==
    With2(o, node, LAMBDA ob, nd :
        [ob EXCEPT !.m = [x \in (DOMAIN ob.m) \cup {key} |->
                             IF x = key THEN nd ELSE ob.m[x]]])

NodeTruthy(node) == IF node.k = "prim" THEN Truthy(node.v) ELSE TRUE

K_value == <<"v", "a", "l", "u", "e">>
K_type == <<"t", "y", "p", "e">>
K_description == <<"d", "e", "s", "c", "r", "i", "p", "t", "i", "o", "n">>

\* The nested assignment of lines 355-360 (and 366-371): walk parts from
\* cur, creating {} where cur[part] is falsy, and set the last part to leaf.
\* A part that is no own key but a member of Object.prototype leads out of
\* the document, which stays as it is; a property cannot be created on a
\* primitive (the script is a module, so in strict mode: a TypeError).
RECURSIVE SetPath(_, _, _)
SetPath(cur, parts, leaf) ==
    IF cur.k = "prim" THEN Thrown
    ELSE IF Len(parts) = 1 THEN Put(cur, parts[1], leaf)
    ELSE IF ~HasOwn(cur, parts[1]) /\ parts[1] \in ObjectPrototypeKeys THEN cur
    ELSE With(IF HasOwn(cur, parts[1]) /\ NodeTruthy(cur.m[parts[1]])
              THEN cur.m[parts[1]] ELSE EmptyObj, LAMBDA child :
         With(SetPath(child, Tail(parts), leaf), LAMBDA sub :
             IF sub.k = "throw" THEN Thrown ELSE Put(cur, parts[1], sub)))

\* The node reached from cur by parts, or Thrown (standing for "nothing
\* there") when some part is missing.
RECURSIVE GetPath(_, _)
GetPath(cur, parts) ==
    IF parts = <<>> THEN cur
    ELSE IF cur.k = "prim" \/ cur.k = "throw" \/ ~HasOwn(cur, parts[1]) THEN Thrown
    ELSE GetPath(cur.m[parts[1]], Tail(parts))

\* type: $type === 'dimension' ? 'sizing' : $type === 'fontWeight' ? ... : $type
StudioType(token) ==
    IF TypeOf(token) = T_dimension THEN Str(<<"s", "i", "z", "i", "n", "g">>)
    ELSE IF TypeOf(token) = T_fontWeight
    THEN Str(<<"f", "o", "n", "t", "W", "e", "i", "g", "h", "t", "s">>)
    ELSE TypeOf(token)

\* tsToken (lines 343-347)
TsToken(token) ==
    With(Put(Put(EmptyObj, K_value, Prim(token.value)),
             K_type, Prim(StudioType(token))), LAMBDA base :
        IF Truthy(token.description)
        THEN Put(base, K_description, Prim(token.description))
        ELSE base)

LightSuffix == <<"-", "l", "i", "g", "h", "t">>
LightNote == <<" ", "[", "l", "i", "g", "h", "t", " ", "m", "o", "d", "e", "]">>

\* The sibling leaf of lines 371-375.
LightToken(token) ==
    Put(Put(Put(EmptyObj, K_value, Prim(token.light)),
            K_type, Prim(StudioType(token))),
        K_description,
        Prim(Str(StringOf(DescriptionOrEmpty(token)) \o LightNote)))

\* lightParts: parts with '-light' appended to the last one.
LightParts(parts) ==
    [parts EXCEPT ![Len(parts)] = parts[Len(parts)] \o LightSuffix]

\* A variant of StudioTarget with the two fallback branches swapped; the
\* agreement of the two outputs' buckets does not survive it.
StudioTarget_Swapped(path) ==
    IF isPrimitive(path) THEN "primitives"
    ELSE IF isComponent(path) THEN "semantic"
    ELSE "components"

\* The name of the object a path's leaf is put under (lines 349-352).
StudioTarget(path) ==
    IF isPrimitive(path) THEN "primitives"
    ELSE IF isSemantic(path) THEN "semantic"
    ELSE "components"

\* The body of the loop for one [path, token], on the three objects doc.
StudioStep(doc, path, token) ==
    With2(Split(path), StudioTarget(path), LAMBDA parts, target :
    With(SetPath(doc[target], parts, TsToken(token)), LAMBDA placed :
        IF placed.k = "throw" THEN [doc EXCEPT !.kind = "throw"]
        ELSE With([doc EXCEPT ![target] = placed], LAMBDA doc1 :
             IF ~Truthy(token.light) THEN doc1
             ELSE With(SetPath(doc1.semantic, LightParts(parts),
                               LightToken(token)), LAMBDA lit :
                  IF lit.k = "throw" THEN [doc1 EXCEPT !.kind = "throw"]
                  ELSE [doc1 EXCEPT !.semantic = lit]))))

RECURSIVE StudioLoop(_, _, _)
StudioLoop(doc, f, k) ==
    IF k > Len(f) \/ doc.kind = "throw" THEN doc
    ELSE With(StudioStep(doc, f[k].path, f[k].token), LAMBDA next :
             StudioLoop(next, f, k + 1))

\* The returned document; kind is "throw" when the loop ended in a TypeError.
buildTokensStudio(f) ==
    StudioLoop([kind |-> "return",
                metadata |-> [tokenSetOrder |->
                                 <<"primitives", "semantic", "components">>],
                primitives |-> EmptyObj,
                semantic |-> EmptyObj,
                components |-> EmptyObj], f, 1)

NoDocument ==
    [kind |-> "none",
     metadata |-> [tokenSetOrder |-> <<>>],
     primitives |-> EmptyObj, semantic |-> EmptyObj, components |-> EmptyObj]

----------------------------------------------------------------------------
(* The loader: deepMerge and readJsonFiles.                                *)

K_proto == <<"_", "_", "p", "r", "o", "t", "o", "_", "_">>

\* typeof x === 'object' of a truthy x
IsObjectLike(node) == node.k \in {"object", "array"}

\* The body of deepMerge's loop for key k of b.  a[k] is read through the
\* prototype chain: for k = '__proto__' that is not an own key, both branches
\* act on Object.prototype and a's own keys stay as they are.
MergeKey(a, b, k, Merge(_, _)) ==
    IF k = K_proto /\ ~HasOwn(a, k) THEN a
    ELSE IF /\ b.m[k].k = "object"
            /\ HasOwn(a, k)
            /\ IsObjectLike(a.m[k])
    THEN Put(a, k, Merge(a.m[k], b.m[k]))
    ELSE Put(a, k, b.m[k])

RECURSIVE deepMerge(_, _)
RECURSIVE MergeKeys(_, _, _)
MergeKeys(a, b, keys) ==
    IF keys = {} THEN a
    ELSE With(CHOOSE k \in keys : TRUE, LAMBDA k :
         With(MergeKey(a, b, k, deepMerge), LAMBDA merged :
             MergeKeys(merged, b, keys \ {k})))

\* deepMerge(a, b): b's keys are merged into a; the merged a is returned.
deepMerge(a, b) == MergeKeys(a, b, DOMAIN b.m)

\* Object.assign(a, b): each own key of b is copied onto a.
ObjectAssign(a, b) ==
    [a EXCEPT !.m = [x \in (DOMAIN a.m) \cup (DOMAIN b.m) |->
                        IF x \in DOMAIN b.m THEN b.m[x] ELSE a.m[x]]]

EndsWith(s, suffix) ==
    Len(s) >= Len(suffix)
    /\ SubSeq(s, Len(s) - Len(suffix) + 1, Len(s)) = suffix

JsonExtension == <<".", "j", "s", "o", "n">>

\* A directory is the sequence of its entries as readdirSync lists them; an
\* entry is a directory (with its own entries in children) or a file (with
\* the value JSON.parse gives for its text in data, Thrown when the text is
\* no JSON).
DirEntry(name, children) ==
    [kind |-> "dir", name |-> name, data |-> EmptyObj, children |-> children]
FileEntry(name, data) ==
    [kind |-> "file", name |-> name, data |-> data, children |-> <<>>]

\* The body of readJsonFiles' loop for one entry, on the result so far.
ReadEntry(acc, entry, Read(_)) ==
    IF acc.k = "throw" THEN acc
    ELSE IF entry.kind = "dir"
    THEN With(Read(entry.children), LAMBDA sub :
             IF sub.k = "throw" THEN Thrown ELSE ObjectAssign(acc, sub))
    ELSE IF EndsWith(entry.name, JsonExtension)
    THEN IF entry.data.k = "throw" THEN Thrown ELSE deepMerge(acc, entry.data)
    ELSE acc

RECURSIVE readJsonFiles(_)
RECURSIVE ReadEntries(_, _, _)
ReadEntries(acc, dir, k) ==
    IF k > Len(dir) THEN acc
    ELSE With(ReadEntry(acc, dir[k], readJsonFiles), LAMBDA next :
             ReadEntries(next, dir, k + 1))

\* The merged mapping, or Thrown when a file could not be parsed.
readJsonFiles(dir) == ReadEntries(EmptyObj, dir, 1)

----------------------------------------------------------------------------
(* Token records and the inputs the specifications draw from.              *)

\* A flattened token: $value, $type, $description and
\* $extensions?.modes?.light (Undefined where absent).
Token(v, ty, desc, light) ==
    [value |-> v, type |-> ty, description |-> desc, light |-> light]

P_color_a == <<"c", "o", "l", "o", "r", ".", "a">>
P_text_a == <<"t", "e", "x", "t", ".", "a">>
P_text_a_light == <<"t", "e", "x", "t", ".", "a", "-", "l", "i", "g", "h", "t">>
P_button_a == <<"b", "u", "t", "t", "o", "n", ".", "a">>
P_missing_x == <<"m", "i", "s", "s", "i", "n", "g", ".", "x">>
P_constructor == <<"c", "o", "n", "s", "t", "r", "u", "c", "t", "o", "r">>

HexRed == Str(<<"#", "f", "0", "0">>)
HexWhite == Str(<<"#", "f", "f", "f">>)
Px12 == Str(<<"1", "2", "p", "x">>)

\* The sequence of those entries of order whose path is in S, each with the
\* token g gives it.
RECURSIVE FlatOf(_, _, _)
FlatOf(order, S, g) ==
    IF order = <<>> THEN <<>>
    ELSE IF Head(order) \in S
         THEN <<[path |-> Head(order), token |-> g[Head(order)]]>>
              \o FlatOf(Tail(order), S, g)
    ELSE FlatOf(Tail(order), S, g)

----------------------------------------------------------------------------
(* The resolver on its own: resolveRef applied to one argument.            *)

ResolvePathOrder == <<P_color_a, P_text_a, P_button_a, P_text_a_light>>
ResolvePaths == {ResolvePathOrder[k] : k \in 1..Len(ResolvePathOrder)}
RefTargets == ResolvePaths \cup {P_missing_x}

\* A string that starts with "{" and is no reference.
BraceOnly == Str(<<"{", "x">>)

ResolveValues ==
    {HexRed, Int_(12), BraceOnly} \cup {RefTo(p) : p \in RefTargets}

\* resolveRef reads flatTokens by property lookup only, so one order of the
\* entries stands for all of them.
ResolveFlats ==
    UNION { { FlatOf(ResolvePathOrder, S,
                     [p \in S |-> Token(g[p], T_color, Undefined, Undefined)])
              : g \in [S -> ResolveValues] }
            : S \in {X \in SUBSET ResolvePaths : Cardinality(X) <= MaxChain} }

NoResult == [kind |-> "none", val |-> Undefined, calls |-> 0]

EnvUnread ==
    [FIGMA_PUSH |-> Undefined, FIGMA_FILE_KEY |-> Undefined,
     FIGMA_TOKEN |-> Undefined]

InitIdle ==
    /\ i = 0
    /\ variables = <<>>
    /\ variableModeValues = <<>>
    /\ resolveLog = {}
    /\ tokensStudio = NoDocument
    /\ files = {}
    /\ network = 0
    /\ env = EnvUnread
    /\ exitCode = -1

InitResolve ==
    /\ pc = "resolve"
    /\ flat \in ResolveFlats
    /\ ref \in ResolveValues
    /\ result = NoResult
    /\ tree = <<>>
    /\ allTokens = EmptyObj
    /\ InitIdle

\* One call of resolveRef(ref, flat) from outside the script.
CallResolveRef ==
    /\ pc = "resolve"
    /\ result' = resolveRef(ref, flat)
    /\ pc' = "resolved"
    /\ UNCHANGED <<flat, i, variables, variableModeValues, resolveLog,
                   tokensStudio, files, network, env, exitCode, ref, tree,
                   allTokens>>

NextResolve == CallResolveRef

SpecResolve == InitResolve /\ [][NextResolve]_vars

----------------------------------------------------------------------------
(* Reference chains, stated without resolveRef.                            *)

IsReference(v) == IsString(v) /\ MatchesRef(v.s)

\* Where the chain that starts at path p ends, following at most n
\* references: at a token holding a literal ("literal", with the value and the
\* number of tokens passed), at a path that is no token of f ("absent", with
\* the reference string that names it), or nowhere ("cyclic").
RECURSIVE ChainFrom(_, _, _, _)
ChainFrom(p, f, n, hops) ==
    IF ~HasToken(f, p)
    THEN [kind |-> "absent", value |-> RefTo(p), hops |-> hops]
    ELSE LET v == TokenAt(f, p).value
         IN  IF ~IsReference(v)
             THEN [kind |-> "literal", value |-> v, hops |-> hops + 1]
             ELSE IF n = 0
             THEN [kind |-> "cyclic", value |-> Undefined, hops |-> hops]
             ELSE ChainFrom(RefPath(v.s), f, n - 1, hops + 1)

Chain(p, f) == ChainFrom(p, f, Len(f), 0)

\* C5: after resolveRef is applied to `{t1}`, where t1 -> {t2} -> ... -> tn is
\* an acyclic chain of tokens of the flattened set and tn holds a literal, the
\* call has returned exactly tn's literal value.
C5_ChainResolvesToLiteral ==
    (/\ pc = "resolved"
     /\ IsReference(ref)
     /\ Chain(RefPath(ref.s), flat).kind = "literal")
    => (/\ result.kind = "return"
        /\ result.val = Chain(RefPath(ref.s), flat).value)

\* C5's case: a chain of three tokens was resolved to the literal at its end.
C5_Witness ==
    /\ pc = "resolved"
    /\ IsReference(ref)
    /\ Chain(RefPath(ref.s), flat).kind = "literal"
    /\ Chain(RefPath(ref.s), flat).hops = 3
    /\ result.val = HexRed

\* C6: after resolveRef is applied to a reference string whose chain ends in
\* a path absent from the flattened set, directly or after hops through
\* existing tokens, the call has returned the string it was called with.
C6_UnresolvedReturnsOriginal ==
    (/\ pc = "resolved"
     /\ IsReference(ref)
     /\ Chain(RefPath(ref.s), flat).kind = "absent")
    => (/\ result.kind = "return"
        /\ result.val = ref)

----------------------------------------------------------------------------
(* The script from the main loop to its end.  It starts from any token set *)
(* of at most MaxTokens tokens, in any iteration order.                    *)

RunPaths == {P_color_a, P_text_a, P_text_a_light, P_button_a}

Described == Str(<<"d">>)

RunTokens ==
    { Token(v, T_color, Undefined, Undefined) :
        v \in {HexRed, RefTo(P_color_a), RefTo(P_text_a), RefTo(P_missing_x),
               RefTo(P_constructor), Int_(4)} }
    \cup { Token(RefTo(P_missing_x), ty, Undefined, Undefined) :
             ty \in {T_dimension, Undefined} }
    \cup { Token(Px12, T_dimension, Described, l) : l \in {Undefined, Int_(0)} }
    \cup { Token(HexRed, T_color, Undefined, l) :
             l \in {HexWhite, RefTo(P_color_a)} }

\* The orders in which n distinct paths can be iterated.
PathOrders(n) ==
    {q \in [1..n -> RunPaths] : \A a, b \in 1..n : a # b => q[a] # q[b]}

PayloadFile == "figma-variables-payload.json"
StudioFile == "figma-tokens-studio.json"

\* What process.env may hold: the flag unset, 'true' or something else; the
\* file key unset, empty or set; the token unset or set.
PushValues == {Undefined, Str(<<"t", "r", "u", "e">>), Str(<<"1">>)}
KeyValues == {Undefined, Str(<<>>), Str(<<"k">>)}
TokenValues == {Undefined, Str(<<"p", "a", "t">>)}

InitRun ==
    /\ pc = "loop"
    /\ \E n \in 0..MaxTokens :
          \E ps \in PathOrders(n), ts \in [1..n -> RunTokens] :
             flat = [k \in 1..n |-> [path |-> ps[k], token |-> ts[k]]]
    /\ i = 1
    /\ variables = <<>>
    /\ variableModeValues = <<>>
    /\ resolveLog = {}
    /\ tokensStudio = NoDocument
    /\ files = {}
    /\ network = 0
    /\ env = EnvUnread
    /\ exitCode = -1
    /\ ref = Undefined
    /\ result = NoResult
    /\ tree = <<>>
    /\ allTokens = EmptyObj

\* One iteration of `for (const [path, token] of Object.entries(flat))`.
\* An uncaught TypeError ends the process with exit code 1; a resolveRef
\* call that never returns leaves the script in the loop for ever.
LoopIteration ==
    /\ pc = "loop"
    /\ i <= Len(flat)
    /\ \E it \in {Iteration(flat[i].path, flat[i].token, flat)} :
           /\ variables' = Append(variables, Variable(flat[i].path, flat[i].token))
           /\ variableModeValues' = variableModeValues \o it.entries
           /\ resolveLog' = resolveLog \cup it.log
           /\ i' = IF it.kind = "ok" THEN i + 1 ELSE i
           /\ pc' = CASE it.kind = "ok" -> "loop"
                      [] it.kind = "throw" -> "crashed"
                      [] OTHER -> "diverged"
           /\ exitCode' = IF it.kind = "throw" THEN 1 ELSE exitCode
    /\ UNCHANGED <<flat, tokensStudio, files, network, env, ref, result, tree,
                   allTokens>>

\* Lines 256-265: the payload is assembled and written; writeFileSync may
\* throw.
WritePayload ==
    /\ pc = "loop"
    /\ i > Len(flat)
    /\ \E written \in BOOLEAN :
          /\ files' = IF written THEN files \cup {PayloadFile} ELSE files
          /\ pc' = IF written THEN "studio" ELSE "crashed"
          /\ exitCode' = IF written THEN exitCode ELSE 1
    /\ UNCHANGED <<flat, i, variables, variableModeValues, resolveLog,
                   tokensStudio, network, env, ref, result, tree, allTokens>>

\* Lines 273-275: the Tokens Studio document is built and written.
WriteTokensStudio ==
    /\ pc = "studio"
    /\ \E doc \in {buildTokensStudio(flat)} :
           \E written \in BOOLEAN :
              LET ok == doc.kind = "return" /\ written
              IN  /\ tokensStudio' = doc
                  /\ files' = IF ok THEN files \cup {StudioFile} ELSE files
                  /\ pc' = IF ok THEN "env" ELSE "crashed"
                  /\ exitCode' = IF ok THEN exitCode ELSE 1
    /\ UNCHANGED <<flat, i, variables, variableModeValues, resolveLog, network,
                   env, ref, result, tree, allTokens>>

\* A variant of PushEnabled that does not consult the push flag.
PushEnabled_NoFlag(e) ==
    /\ Truthy(e.FIGMA_FILE_KEY)
    /\ Truthy(e.FIGMA_TOKEN)

\* FIGMA_PUSH && FIGMA_FILE_KEY && FIGMA_TOKEN (line 283)
PushEnabled(e) ==
    /\ e.FIGMA_PUSH = Str(<<"t", "r", "u", "e">>)
    /\ Truthy(e.FIGMA_FILE_KEY)
    /\ Truthy(e.FIGMA_TOKEN)

\* Lines 279-294: the environment is read; the script either calls
\* pushToFigma or prints guidance and ends.
ReadEnv ==
    /\ pc = "env"
    /\ \E push \in PushValues, key \in KeyValues, token \in TokenValues :
          LET e == [FIGMA_PUSH |-> push, FIGMA_FILE_KEY |-> key,
                    FIGMA_TOKEN |-> token]
          IN  /\ env' = e
              /\ pc' = IF PushEnabled(e) THEN "push" ELSE "done"
              /\ exitCode' = IF PushEnabled(e) THEN exitCode ELSE 0
    /\ UNCHANGED <<flat, i, variables, variableModeValues, resolveLog,
                   tokensStudio, files, network, ref, result, tree, allTokens>>

\* pushToFigma: fetch is called once; it rejects ("network"), or answers
\* with a success status ("ok"), with another status ("status"), or with a
\* body that cannot be read ("body", an unhandled rejection).
pushToFigma ==
    /\ pc = "push"
    /\ network' = network + 1
    /\ \E outcome \in {"ok", "status", "network", "body"} :
          /\ pc' = IF outcome = "ok" THEN "done" ELSE "exited"
          /\ exitCode' = IF outcome = "ok" THEN 0 ELSE 1
    /\ UNCHANGED <<flat, i, variables, variableModeValues, resolveLog,
                   tokensStudio, files, env, ref, result, tree, allTokens>>

NextRun ==
    \/ LoopIteration
    \/ WritePayload
    \/ WriteTokensStudio
    \/ ReadEnv
    \/ pushToFigma

SpecRun == InitRun /\ [][NextRun]_vars

\* The script is one sequential process: while a step is possible, it is
\* taken.
FairSpecRun == InitRun /\ [][NextRun]_vars /\ WF_vars(NextRun)

----------------------------------------------------------------------------
(* What the claims about a run speak of.                                   *)

Terminated == pc \in {"done", "exited", "crashed"}

\* The mode values the loop hands to buildModeValue for one token, in the
\* order of the pushes: $value, and for a two-mode collection the light one.
ModeSources(path, token) ==
    IF Collection(path).secondaryModeId = "undefined"
    THEN <<[path |-> path, token |-> token, val |-> token.value]>>
    ELSE <<[path |-> path, token |-> token, val |-> token.value],
           [path |-> path, token |-> token, val |-> LightRef(token)]>>

RECURSIVE SourcesUpTo(_)
SourcesUpTo(k) ==
    IF k = 0 THEN <<>>
    ELSE SourcesUpTo(k - 1) \o ModeSources(flat[k].path, flat[k].token)

\* The source of each entry of variableModeValues, entry by entry.
Sources == SourcesUpTo(Len(variables))

\* The tokens whose iteration has completed.
Completed == 1..(i - 1)

\* The entries pushed for token k, once its iteration has completed.
EntriesOf(k) ==
    SubSeq(variableModeValues,
           Len(SourcesUpTo(k - 1)) + 1, Len(SourcesUpTo(k)))

RefersToToken(v) == IsReference(v) /\ HasToken(flat, RefPath(v.s))
RefersToAbsent(v) == IsReference(v) /\ ~HasToken(flat, RefPath(v.s))

\* Paths on which the categoriser is compared, beside those of the run.
ClassifyPaths ==
    RunPaths \cup
    { P_missing_x, P_constructor,
      <<"f", "o", "n", "t", ".", "a">>,
      <<"l", "e", "t", "t", "e", "r", "S", "p", "a", "c", "i", "n", "g", ".", "a">>,
      <<"l", "e", "t", "t", "e", "r", "s">>,
      <<"c", "o", "l", "o", "r">>,
      <<"c", "o", "l", "o", "r", "s", ".", "a">>,
      <<"b", "u", "t", "t", "o", "n">>,
      <<"b", "u", "t", "t", "o", "n", "s", ".", "a">>,
      <<"i", "n", "p", "u", "t", ".", "a">>,
      <<"m", "o", "d", "a", "l", ".", "a", ".", "b">> }

BucketCount(p) ==
    (IF isPrimitive(p) THEN 1 ELSE 0) + (IF isSemantic(p) THEN 1 ELSE 0)
    + (IF isComponent(p) THEN 1 ELSE 0)

\* The key of COLL whose collection has this id.
CollKey(id) == CHOOSE key \in DOMAIN COLL : COLL[key].id = id

StudioBuilt == tokensStudio.kind = "return"

\* C2: every path is in exactly one of isPrimitive, isSemantic, isComponent,
\* and the collection of each variable pushed is the bucket under which
\* buildTokensStudio has put a leaf at the token's path.
C2_BucketsPartitionAndAgree ==
    /\ \A p \in ClassifyPaths \cup Paths(flat) : BucketCount(p) = 1
    /\ \A k \in 1..Len(variables) :
          LET key == CollKey(variables[k].variableCollectionId)
          IN  /\ key = (IF isPrimitive(flat[k].path) THEN "primitives"
                        ELSE IF isComponent(flat[k].path) THEN "components"
                        ELSE "semantic")
              /\ StudioBuilt =>
                    GetPath(tokensStudio[key], Split(flat[k].path)).k = "object"

\* C2's case: a run that put a primitive and a component token in both
\* documents.
C2_Witness ==
    /\ pc = "done"
    /\ StudioBuilt
    /\ Len(variables) = 2
    /\ \E a, b \in 1..Len(flat) : isPrimitive(flat[a].path) /\ isComponent(flat[b].path)

\* C3: every entry built from a reference `{p}` to a token p of the flattened
\* set is an alias to p's variable id, every other entry is a literal, and once
\* the loop is over every alias names a variable of the variables list.
C3_AliasExactlyForExistingRefs ==
    /\ \A j \in 1..Len(variableModeValues) :
          IF RefersToToken(Sources[j].val)
          THEN variableModeValues[j].value
                  = AliasValue(toVarId(RefPath(Sources[j].val.s)))
          ELSE variableModeValues[j].value.kind # "VARIABLE_ALIAS"
    /\ (pc # "loop" /\ pc # "crashed") =>
          \A j \in 1..Len(variableModeValues) :
             variableModeValues[j].value.kind = "VARIABLE_ALIAS" =>
                \E k \in 1..Len(variables) :
                   variables[k].id = variableModeValues[j].value.id

\* C4: a completed token has one entry per mode of its collection, in the
\* order of the modes: one for a primitive or component token; for a semantic
\* token the dark one and the light one, the light one built from
\* extensions.modes.light when the token has that override and otherwise
\* equal in value to the dark one.
C4_OneEntryPerMode ==
    \A k \in Completed :
       LET path == flat[k].path
           token == flat[k].token
           modes == COLL[CollKey(variables[k].variableCollectionId)].modes
           es == EntriesOf(k)
       IN  /\ Len(es) = Len(modes)
           /\ \A m \in 1..Len(es) :
                 es[m].modeId = modes[m] /\ es[m].variableId = toVarId(path)
           /\ Len(modes) = (IF isSemantic(path) THEN 2 ELSE 1)
           /\ isSemantic(path) =>
                 IF token.light # Undefined
                 THEN es[2] = buildModeValue(toVarId(path), "bm-mode-light",
                                             token.light,
                                             toFigmaType(TypeOf(token)), flat).entry
                 ELSE es[2].value = es[1].value

\* C7: every entry built from a reference to a path absent from the flattened
\* set is the magenta colour when the variable's type is COLOR and the
\* reference string itself otherwise, and no such reference ends the run.
C7_UnresolvedSentinel ==
    /\ \A j \in 1..Len(variableModeValues) :
          RefersToAbsent(Sources[j].val) =>
             variableModeValues[j].value =
                (IF toFigmaType(TypeOf(Sources[j].token)) = "COLOR"
                 THEN ColorValue(Magenta)
                 ELSE LiteralValue(Sources[j].val))
    /\ (pc = "crashed" /\ i <= Len(flat)) =>
          /\ ~RefersToAbsent(flat[i].token.value)
          /\ ~RefersToAbsent(LightRef(flat[i].token))

\* C8: in the document buildTokensStudio returned (and the script wrote),
\* following each token's path segments under its bucket reaches a leaf with
\* the token's own value and its remapped type.
C8_EveryTokenHasItsLeaf ==
    (StudioBuilt /\ StudioFile \in files) =>
       \A k \in 1..Len(flat) :
          LET token == flat[k].token
              bucket == IF isPrimitive(flat[k].path) THEN "primitives"
                        ELSE IF isComponent(flat[k].path) THEN "components"
                        ELSE "semantic"
              leaf == GetPath(tokensStudio[bucket], Split(flat[k].path))
              type == IF TypeOf(token) = T_dimension
                      THEN Str(<<"s", "i", "z", "i", "n", "g">>)
                      ELSE IF TypeOf(token) = T_fontWeight
                      THEN Str(<<"f", "o", "n", "t", "W", "e", "i", "g", "h", "t", "s">>)
                      ELSE TypeOf(token)
          IN  /\ leaf.k = "object"
              /\ K_value \in DOMAIN leaf.m
              /\ leaf.m[K_value] = Prim(token.value)
              /\ K_type \in DOMAIN leaf.m
              /\ leaf.m[K_type] = Prim(type)

BothFilesWritten == {PayloadFile, StudioFile} \subseteq files

\* The push is asked for: FIGMA_PUSH is 'true' and the file key and the token
\* are set (non-empty).
PushAskedFor ==
    /\ env.FIGMA_PUSH = Str(<<"t", "r", "u", "e">>)
    /\ env.FIGMA_FILE_KEY \notin {Undefined, Str(<<>>)}
    /\ env.FIGMA_TOKEN \notin {Undefined, Str(<<>>)}

HasCycle == \E p \in Paths(flat) : Chain(p, flat).kind = "cyclic"

\* C10: every run ends; buildModeValue calls resolveRef only on values that
\* name no token of the set, and each such call returns without recursing;
\* resolveRef applied to a reference into a cycle never returns.
C10_RunTerminates ==
    /\ <>Terminated
    /\ [](\A c \in resolveLog :
             ~c.existing /\ c.calls = 1 /\ c.kind # "diverge")
    /\ [](\A p \in Paths(flat) :
             Chain(p, flat).kind = "cyclic"
                => resolveRef(RefTo(p), flat).kind = "diverge")

\* C10's case: a run over a token set with a reference cycle has ended with
\* both documents built.
C10_Witness == pc = "done" /\ HasCycle /\ StudioBuilt /\ resolveLog # {}

----------------------------------------------------------------------------
(* The loader on its own: readJsonFiles applied to a directory tree.       *)

K_dvalue == <<"$", "v", "a", "l", "u", "e">>
K_dtype == <<"$", "t", "y", "p", "e">>
K_color == <<"c", "o", "l", "o", "r">>
K_text == <<"t", "e", "x", "t">>
K_a == <<"a">>
K_b == <<"b">>

\* { "$value": v, "$type": "color" }
JsonToken(v) == Put(Put(EmptyObj, K_dvalue, Prim(v)), K_dtype, Prim(T_color))

\* { group: { name: token } }
JsonFile(group, name, token) ==
    Put(EmptyObj, group, Put(EmptyObj, name, token))

FileDatas ==
    { JsonFile(K_color, K_a, JsonToken(HexRed)),
      JsonFile(K_color, K_b, JsonToken(HexWhite)),
      JsonFile(K_color, K_a, JsonToken(HexWhite)),
      JsonFile(K_text, K_a, JsonToken(RefTo(P_color_a))),
      Thrown }

N_a_json == <<"a", ".", "j", "s", "o", "n">>
N_b_json == <<"b", ".", "j", "s", "o", "n">>
N_notes_md == <<"n", "o", "t", "e", "s", ".", "m", "d">>
N_core == <<"c", "o", "r", "e">>
N_sub == <<"s", "u", "b">>

FileEntries ==
    {FileEntry(name, d) : name \in {N_a_json, N_b_json}, d \in FileDatas}
    \cup {FileEntry(N_notes_md, Thrown)}

\* The directories of at most MaxEntries entries, no two of one name, and at
\* most depth levels of subdirectories, in any listing order.
RECURSIVE Dirs(_)
Dirs(depth) ==
    LET entries == IF depth = 0 THEN FileEntries
                   ELSE FileEntries
                        \cup {DirEntry(name, c) : name \in {N_core, N_sub},
                                                  c \in Dirs(depth - 1)}
    IN  UNION {{d \in [1..n -> entries] :
                   \A x, y \in 1..n : x # y => d[x].name # d[y].name}
               : n \in 0..MaxEntries}

InitLoad ==
    /\ pc = "load"
    /\ tree \in Dirs(MaxDepth)
    /\ allTokens = EmptyObj
    /\ flat = <<>>
    /\ ref = Undefined
    /\ result = NoResult
    /\ InitIdle

\* const allTokens = readJsonFiles(TOKENS_DIR); a file that is no JSON ends
\* the script.
LoadTokens ==
    /\ pc = "load"
    /\ \E loaded \in {readJsonFiles(tree)} :
          /\ allTokens' = loaded
          /\ pc' = IF loaded.k = "throw" THEN "crashed" ELSE "loaded"
          /\ exitCode' = IF loaded.k = "throw" THEN 1 ELSE exitCode
    /\ UNCHANGED <<flat, i, variables, variableModeValues, resolveLog,
                   tokensStudio, files, network, env, ref, result, tree>>

NextLoad == LoadTokens

SpecLoad == InitLoad /\ [][NextLoad]_vars

\* The parsed JSON files of a directory tree in the order readJsonFiles
\* visits them.
RECURSIVE Visited(_)
Visited(dir) ==
    IF dir = <<>> THEN <<>>
    ELSE (IF Head(dir).kind = "dir" THEN Visited(Head(dir).children)
          ELSE IF EndsWith(Head(dir).name, JsonExtension) THEN <<Head(dir).data>>
          ELSE <<>>)
         \o Visited(Tail(dir))

\* The tokens a document defines: the paths (as segments) of its nodes that
\* hold a $value, each with its node.
RECURSIVE Leaves(_, _)
Leaves(node, prefix) ==
    IF node.k # "object" THEN {}
    ELSE IF K_dvalue \in DOMAIN node.m THEN {[parts |-> prefix, leaf |-> node]}
    ELSE UNION {Leaves(node.m[key], Append(prefix, key)) : key \in DOMAIN node.m}

\* C1: the mapping readJsonFiles returned holds, for every file visited and
\* every token of it that no file visited later defines again, that token
\* with its own value at its path.
C1_LoadedIsDeepMerge ==
    pc = "loaded" =>
       LET files_ == Visited(tree)
       IN  \A j \in 1..Len(files_) :
              \A t \in Leaves(files_[j], <<>>) :
                 (\A later \in (j + 1)..Len(files_) :
                     \A u \in Leaves(files_[later], <<>>) : u.parts # t.parts)
                 => GetPath(allTokens, t.parts) = t.leaf

====
